---------------------------- MODULE Spec2Model ----------------------------
(***************************************************************************)
(* State-machine model of ESFullReplicator (src/es_replicator.py): the     *)
(* coordinator (replicate_all_indices / replicate_missing_indices), the    *)
(* per-collection workers (_replicate_single_index / replicate_index),     *)
(* the bulk futures of a collection, the sync checkpoint, and the two      *)
(* clusters as far as the replicator reads or writes them.                 *)
(*                                                                         *)
(* Every store call is one step.  A store call on a collection that does   *)
(* not exist raises NotFoundError; any store call may also fail with a     *)
(* transport error (any other exception).  Both clusters are independent   *)
(* stores: another client may delete a collection at any time.             *)
(***************************************************************************)
EXTENDS Integers, Sequences, FiniteSets, TLC

(* ------------------------------ bounds -------------------------------- *)
\* documents of the source collection in a run with one collection and one pass
MaxDocs == 3
\* documents of each source collection in a run with two collections or
\* with several passes
MaxShared == 1
\* documents per scan window (self.batch_size, scaled down from 10000)
BatchSize == 2
\* passes of replicate_all_indices that the model follows
MaxPasses == 2
\* deletions of a collection by another client of the clusters
MaxEnv == 1
\* documents a sample of verify_replication asks for (min(1000, count),
\* scaled down from 1000)
SampleMax == 2
\* attempts of one bulk request: the first and its retries (max_retries = 5
\* in the source, after a timeout)
MaxAttempts == 2
\* documents of the collection whose batches outnumber the document pool
MaxPoolDocs == 5
\* self.max_index_workers and self.max_workers, the sizes of the collection
\* pool and of the document pool of a collection (5 and 100 in the source),
\* scaled down so that a pass can fill them
MaxIndexWorkers == 2
MaxWorkers == 2

(* ------------------------- program constants -------------------------- *)
\* timedelta(days=1), in seconds
DaySeconds == 86400
None == "None"

\* collection names; NameSeq is the order in which cat.indices lists them
NameSeq == <<".m", "a", "b", "c">>
Names == {NameSeq[k] : k \in 1..Len(NameSeq)}

\* the characters of a name
Chars(n) ==
    CASE n = ".m" -> <<".", "m">>
      [] n = "a"  -> <<"a">>
      [] n = "b"  -> <<"b">>
      [] n = "c"  -> <<"c">>

\* self.exclude_patterns: re.match anchors each pattern at the start of the
\* name and a trailing ".*" matches any rest, so each pattern is a prefix
ExcludePatterns ==
    { <<".">>,
      <<"_", "i", "l", "m", "_", "h", "i", "s", "t", "o", "r", "y">>,
      <<"_", "w", "a", "t", "c", "h", "e", "r", "_", "h", "i", "s", "t", "o", "r", "y">>,
      <<"_", "s", "e", "c", "u", "r", "i", "t", "y", "_", "a", "u", "d", "i", "t", "_", "l", "o", "g">> }

ReMatch(p, s) ==
    /\ Len(p) <= Len(s)
    /\ \A k \in 1..Len(p) : s[k] = p[k]

\* (mutant) no name is excluded
ShouldReplicateAll(n) == TRUE

ShouldReplicate(n) == ~ \E p \in ExcludePatterns : ReMatch(p, Chars(n))

\* the names of S in listing order
ListOf(S) == SelectSeq(NameSeq, LAMBDA n : n \in S)

(* ------------------------------ time ---------------------------------- *)
\* a datetime is [s |-> seconds, us |-> microseconds]
DateTime(s, us) == [s |-> s, us |-> us]

Later(d, e) == d.s > e.s \/ (d.s = e.s /\ d.us > e.us)

\* datetime.isoformat(): the fraction is left out when microsecond is 0
IsoFormat(d) == IF d.us = 0 THEN <<d.s>> ELSE <<d.s, d.us>>

\* datetime.fromisoformat(): the fraction is optional
FromIsoFormat(t) == IF Len(t) = 1 THEN DateTime(t[1], 0) ELSE DateTime(t[1], t[2])

\* datetime.now() - timedelta(days=1)
DefaultSyncTime(d) == DateTime(d.s - DaySeconds, d.us)

Micros == {0, 5}

(* ----------------------------- statistics ----------------------------- *)
ZeroStats == [processed |-> 0, updated |-> 0, failed |-> 0]

AddStats(t, s) ==
    [processed |-> t.processed + s.processed,
     updated   |-> t.updated + s.updated,
     failed    |-> t.failed + s.failed]

Min(x, y) == IF x < y THEN x ELSE y

(* ---------------------------- field maps ------------------------------ *)
\* largest scalar value of a field
MaxScalar == 1

\* A field map as Python holds it: a sequence of [key, val] in insertion
\* order.  A value is a scalar or a nested map whose values are scalars.
Scalars == 0..MaxScalar
Scalar(n) == [kind |-> "scalar", n |-> n, items |-> << >>]
MapValue(items) == [kind |-> "map", n |-> 0, items |-> items]

\* the keys of a document, in sort order
KeyOrder == <<"f", "g">>

NestedPairs == {[key |-> k, n |-> n] : k \in {"x", "y"}, n \in Scalars}
NestedItems ==
    {<< >>} \cup {<<p>> : p \in NestedPairs}
            \cup {<<pq[1], pq[2]>> : pq \in {r \in NestedPairs \X NestedPairs : r[1].key # r[2].key}}

TopPairs ==
    {[key |-> "f", val |-> Scalar(n)] : n \in Scalars}
        \cup {[key |-> "g", val |-> MapValue(it)] : it \in NestedItems}
FieldMaps ==
    {<< >>} \cup {<<p>> : p \in TopPairs}
            \cup {<<pq[1], pq[2]>> : pq \in {r \in TopPairs \X TopPairs : r[1].key # r[2].key}}

\* str() of a scalar
ScalarStr(n) == <<"0", "1", "2", "3">>[n + 1]

RECURSIVE NestedStr(_, _)
\* str() of the items k.. of a nested map: its items in insertion order
NestedStr(items, k) ==
    IF k > Len(items) THEN << >>
    ELSE <<items[k].key, ":", ScalarStr(items[k].n), ",">> \o NestedStr(items, k + 1)

\* str() of a value
ValueStr(val) ==
    IF val.kind = "scalar" THEN <<ScalarStr(val.n)>>
    ELSE <<"{">> \o NestedStr(val.items, 1) \o <<"}">>

RECURSIVE SortedItems(_, _)
\* sorted(m.items()): the pairs of m by key, from the j-th key of KeyOrder on
SortedItems(m, j) ==
    IF j > Len(KeyOrder) THEN << >>
    ELSE SelectSeq(m, LAMBDA p : p.key = KeyOrder[j]) \o SortedItems(m, j + 1)

RECURSIVE ItemsStr(_, _)
\* str() of the list of pairs ps from the k-th on
ItemsStr(ps, k) ==
    IF k > Len(ps) THEN << >>
    ELSE <<"(", ps[k].key, ",">> \o ValueStr(ps[k].val) \o <<")">> \o ItemsStr(ps, k + 1)

\* _generate_doc_hash on a field map: the digest of str(sorted(m.items())),
\* distinct strings having distinct digests
HashFieldMap(m) == <<"sha256">> \o ItemsStr(SortedItems(m, 1), 1)

\* the field map as a value: two maps are equal (==) when they hold the same
\* keys with equal values, whatever the insertion order, nested maps included
NestedAsValue(items) ==
    [k \in {items[j].key : j \in 1..Len(items)} |->
        (CHOOSE p \in {items[j] : j \in 1..Len(items)} : p.key = k).n]
AsValue(m) ==
    [k \in {m[j].key : j \in 1..Len(m)} |->
        LET val == (CHOOSE p \in {m[j] : j \in 1..Len(m)} : p.key = k).val IN
        [kind |-> val.kind, n |-> val.n, d |-> NestedAsValue(val.items)]]

IdleHash == [pc |-> "off", a |-> << >>, b |-> << >>, fa |-> << >>, fb |-> << >>]

(* ----------------------------- documents ------------------------------ *)
\* A document's _source is [body |-> its fields other than the checksum
\* field, sum |-> what its checksum field holds].  Fingerprints are tuples;
\* NoSum is a document without the checksum field (.get gives None).
NoSum == << >>

\* _generate_doc_hash: the digest of all the fields of the document, the
\* checksum field included when the document carries one; distinct field
\* maps have distinct digests and no map holds its own digest
GenerateDocHash(d) == <<d.body>> \o d.sum

\* (mutant) the fingerprint is taken of the fields with the checksum attached
ActionSourceHashingTagged(d) ==
    [body |-> d.body,
     sum  |-> GenerateDocHash([body |-> d.body, sum |-> GenerateDocHash(d)])]

\* the _source that process_batch puts into the index action of document d:
\* the fields of d with the checksum field set to the fingerprint of d
ActionSource(d) == [body |-> d.body, sum |-> GenerateDocHash(d)]

\* (mutant) a document that the collection holds is kept
UpsertKeepingExisting(f, g) ==
    [id \in DOMAIN f \cup DOMAIN g |-> IF id \in DOMAIN f THEN f[id] ELSE g[id]]

\* f with the documents g written over it
Upsert(f, g) ==
    [id \in DOMAIN f \cup DOMAIN g |-> IF id \in DOMAIN g THEN g[id] ELSE f[id]]

VARIABLES
    \* source cluster
    srcIdx,         \* names of the collections on the source
    srcCount,       \* documents of each source collection, with ids 1..srcCount
    srcSum,         \* what the checksum field of the source documents holds
    srcRefresh,     \* refresh_interval of each source collection
    \* target cluster
    tgtIdx,         \* names of the collections on the target
    tgtDocs,        \* documents of each target collection, by id
    tgtFields,      \* names of the fields in the schema of each target collection
    tgtRefresh,     \* refresh_interval of each target collection: "1s" or "-1"
    metaExists,     \* .replication_meta exists on the target
    ckpt,           \* the last_sync document's timestamp string, or None
    \* world
    now,            \* the wall clock
    envLeft,        \* deletions by other clients still to come
    \* coordinator
    mode,           \* "all" or "missing"
    continuous,     \* the continuous flag of replicate_all_indices
    pc,             \* position of the main thread
    lastSync,       \* self.last_sync_time
    timestampField, \* self.timestamp_field
    indices,        \* the discovered list of the pass
    cidx,           \* position of the main thread in indices
    total,          \* total_stats
    \* workers
    w,              \* per collection: the call of _replicate_single_index
    \* a process started with --verify-only
    v,              \* its position, its list and the report of verify_replication
    \* _generate_doc_hash applied to two field maps
    h,              \* the two maps and their fingerprints
    \* the process interrupt (KeyboardInterrupt in the main thread)
    intr,           \* whether one comes, and what was under way when it came
    \* the attempts of bulk requests that the transport has sent again
    wire,           \* each with the ids it has still to write
    \* history
    passes,         \* discoveries of replicate_all_indices so far
    saves,          \* calls of _save_sync_time so far
    ckptBefore,     \* the checkpoint document when the current pass started
    born,           \* source collections another client created during a pass
    initNow,        \* the wall clock when _init_last_sync_time ran
    fatal           \* what raised the exception that main answers with exit(1)

vars == <<srcIdx, srcCount, srcSum, srcRefresh, tgtIdx, tgtDocs, tgtFields, tgtRefresh,
          metaExists, ckpt, now, envLeft,
          mode, continuous, pc, lastSync, timestampField, indices, cidx, total,
          w, v, h, intr, wire, passes, saves, ckptBefore, initNow, fatal, born>>

clusterVars == <<srcIdx, srcCount, srcSum, srcRefresh, tgtIdx, tgtDocs, tgtFields, tgtRefresh,
                 metaExists, ckpt>>
srcVars == <<srcIdx, srcCount, srcSum, srcRefresh>>
histVars == <<passes, saves, ckptBefore, initNow, fatal, born>>

(* ------------------------------ schemas ------------------------------- *)
\* the field mappings of the source collections, in dictionary order
Field(n, t, sub) == [name |-> n, type |-> t, props |-> sub]

Mapping(n) ==
    CASE n = "a"  -> << Field("title", "text", <<>>),
                        Field("created", "date", <<>>),
                        Field("meta", "object", << Field("seen", "date", <<>>) >>) >>
      [] n = "b"  -> << Field("body", "text", <<>>),
                        Field("meta", "object", << Field("size", "long", <<>>),
                                                   Field("ts", "date", <<>>) >>) >>
      [] n = "c"  -> << Field("n", "long", <<>>) >>
      [] n = ".m" -> << >>

IsDate(f) == f.type = "date"

\* index of the first date field of fs at or after k, or 0
RECURSIVE FirstDate(_, _)
FirstDate(fs, k) ==
    IF k > Len(fs) THEN 0
    ELSE IF IsDate(fs[k]) THEN k
    ELSE FirstDate(fs, k + 1)

HasNestedDate(f) == f.type = "object" /\ FirstDate(f.props, 1) # 0

\* index of the first object field of fs at or after k that holds a date field, or 0
RECURSIVE FirstNestedDate(_, _)
FirstNestedDate(fs, k) ==
    IF k > Len(fs) THEN 0
    ELSE IF HasNestedDate(fs[k]) THEN k
    ELSE FirstNestedDate(fs, k + 1)

\* _detect_timestamp_field on a readable mapping: the name, dotted for a nested field
DetectTimestampField(n) ==
    LET fs == Mapping(n)
        top == FirstDate(fs, 1)
        obj == FirstNestedDate(fs, 1)
    IN  IF top # 0 THEN fs[top].name
        ELSE IF obj # 0
             THEN fs[obj].name \o "." \o fs[obj].props[FirstDate(fs[obj].props, 1)].name
             ELSE None

\* self.checksum_field
ChecksumField == "_doc_hash"

\* the names of the top-level fields of the schema of source collection n
FieldNames(n) == {Mapping(n)[k].name : k \in 1..Len(Mapping(n))}

\* the properties of the body of indices.create in _create_target_index: those
\* of the source mapping and the checksum field
TargetSchema(n) == FieldNames(n) \cup {ChecksumField}

\* the fields of the index actions of collection n: {**_source, checksum_field: hash}
ActionFields(n) == FieldNames(n) \cup {ChecksumField}

(* ------------------------------ workers ------------------------------- *)
\* one call of _replicate_single_index / replicate_index
IdleWorker ==
    [pc       |-> "idle",    \* position in the call
     stats    |-> ZeroStats, \* the stats dictionary of replicate_index
     snap     |-> 0,         \* total_docs: documents the scan will produce
     pos      |-> 0,         \* documents the scan has produced
     futures  |-> <<>>,      \* the bulk futures, in submission order
     fidx     |-> 1,         \* next future whose result is collected
     actions  |-> 0,         \* len(actions) of the last process_batch
     pend     |-> "none",    \* exception leaving the executor block
     res      |-> "none",    \* "ret": returned stats, "exc": raised
     exit     |-> "none",    \* the exit path of replicate_index
     \* history of the call
     \* lines 243-245 of the worker, until it calls replicate_index
     detected |-> "unset",   \* what _detect_timestamp_field returned to the worker
     logged   |-> "unset",   \* the field of "Using timestamp field", None: no such line
     disabled |-> FALSE,     \* the call set refresh_interval to "-1"
     srcAt    |-> FALSE,     \* the collection was on the source at the call
     tgtAt    |-> FALSE,     \* the collection was on the target at the call
     created  |-> FALSE,     \* the call created the target collection
     creates  |-> 0,         \* indices.create requests of the call
     at       |-> "none",    \* where the call was when it ended
     hashFail |-> 0,         \* documents that could not be fingerprinted
     rejected |-> 0,         \* documents rejected by a bulk request
     lost     |-> 0]         \* documents of bulk requests that raised

\* st: "off" no interrupt comes, "armed" one will, "raised" it propagates out
\* of the executor block, "handled" replicate_all_indices has returned on it;
\* busy and flying: the collections submitted and unfinished and the bulk
\* requests in flight when it came
NoInterrupt == [st |-> "off", busy |-> {}, flying |-> 0]

(* ------------------------------ verifier ------------------------------ *)
\* stats of verify_replication
ZeroReport == [checked |-> 0, mismatches |-> 0, missing_indices |-> 0,
               count_mismatches |-> 0]

\* the last collection verify_replication has left, for the properties:
\* path is how it left it, pre the report before it, sc and tc the counts and
\* ss and ts the samples (id -> fingerprint) it compared
NoCollection ==
    [name |-> None, path |-> "none", pre |-> ZeroReport, sc |-> 0, tc |-> 0,
     ss |-> << >>, ts |-> << >>]

IdleVerifier ==
    [pc    |-> "off",        \* position of the process
     list  |-> << >>,        \* indices, the argument of verify_replication
     idx   |-> 1,            \* position of the loop in list
     stats |-> ZeroReport,   \* the report
     pre   |-> ZeroReport,   \* the report when the loop body began
     sc    |-> 0,            \* source_count
     tc    |-> 0,            \* target_count
     last  |-> NoCollection,
     after |-> FALSE,        \* the process began after replicate_all_indices returned
     errs  |-> 0]            \* collections that the loop left on an exception

\* what a target document may be before the run: a plain copy of the source
\* document, the document as replication writes it, or that of an older content
DocOfKind(d, kind) ==
    CASE kind = "copy"       -> d
      [] kind = "replicated" -> ActionSource(d)
      [] kind = "stale"      -> ActionSource([body |-> 0, sum |-> NoSum])

\* the contents a target collection may start with: any documents with ids
\* 1..k, each of one of the kinds, the source documents carrying the
\* checksum value sum
TargetDocChoices(k, sum) ==
    { [id \in S |-> DocOfKind([body |-> id, sum |-> sum], kd[id])] :
          S \in SUBSET (1..k), kd \in [1..k -> {"copy", "replicated", "stale"}] }

\* The clusters and the command line when the process starts.  Runs with one
\* replicated collection and one pass take up to MaxDocs documents and
\* deletions by other clients; runs with two collections, or with several
\* passes or a stored checkpoint, take up to MaxShared documents a collection.
Init ==
    /\ srcIdx \in {S \in SUBSET Names : ".m" \in S}
    /\ srcCount \in [Names -> 0..MaxPoolDocs]
    /\ \A n \in Names : srcCount[n] > MaxDocs =>
          n = "a" /\ srcCount[n] = MaxPoolDocs /\ srcIdx = {".m", "a"}
    /\ \A n \in Names : n \notin srcIdx => srcCount[n] = 0
    /\ srcCount[".m"] = 0
    /\ srcRefresh = [n \in Names |-> "1s"]
    /\ tgtIdx \in SUBSET {"a", "b"}
    /\ "b" \in tgtIdx => "b" \in srcIdx
    /\ tgtRefresh = [n \in Names |-> "1s"]
    /\ \/ metaExists = FALSE /\ ckpt = None
       \/ metaExists = TRUE /\ ckpt = None
       \/ metaExists = TRUE /\ ckpt = IsoFormat(DateTime(90000, 5))
    /\ now = DateTime(100000, 0)
    /\ mode \in {"all", "missing", "verify"}
    /\ continuous \in BOOLEAN
    /\ mode # "all" => continuous = FALSE
    /\ \E on \in BOOLEAN :
         /\ mode = "verify" => on
         /\ v = [IdleVerifier EXCEPT !.pc = IF on THEN "start" ELSE "off"]
    /\ v.pc = "start" =>
          /\ mode # "missing" /\ ~continuous /\ ~metaExists
          /\ mode = "all" => "b" \notin srcIdx /\ \A n \in Names : srcCount[n] <= MaxShared
    /\ srcSum \in [Names -> {NoSum, GenerateDocHash([body |-> 0, sum |-> NoSum])}]
    /\ \A n \in Names :
          srcSum[n] # NoSum =>
              /\ n = "a" /\ "b" \notin srcIdx
              /\ \/ mode = "verify"
                 \/ /\ mode = "all" /\ ~continuous /\ ~metaExists /\ v.pc = "off"
                    /\ \A m \in Names : srcCount[m] <= MaxShared
    /\ LET k == IF "b" \in srcIdx THEN MaxShared ELSE MaxDocs
           Choices(n) == IF mode = "verify" /\ n \in tgtIdx
                         THEN TargetDocChoices(k, srcSum[n])
                         ELSE {<< >>}
       IN  tgtDocs \in { [n \in Names |-> CASE n = "a" -> fa [] n = "b" -> fb [] OTHER -> << >>] :
                             fa \in Choices("a"), fb \in Choices("b") }
    /\ (continuous \/ metaExists) =>
          /\ "b" \notin srcIdx
          /\ mode = "all"
          /\ \A n \in Names : srcCount[n] <= MaxShared
    /\ ("b" \in srcIdx /\ "c" \notin srcIdx) => \A n \in Names : srcCount[n] <= MaxShared
    /\ pc = IF mode = "verify" THEN "off" ELSE "start"
    /\ h = IdleHash
    /\ wire = {}
    /\ intr \in {NoInterrupt, [NoInterrupt EXCEPT !.st = "armed"]}
    /\ intr.st = "armed" =>
          /\ mode = "all" /\ v.pc = "off" /\ ~metaExists
          /\ \A n \in Names : srcCount[n] <= MaxShared /\ srcSum[n] = NoSum
    /\ "c" \in srcIdx => srcIdx = Names /\ \A n \in Names : srcCount[n] = 0
    /\ ("c" \in srcIdx \/ srcCount["a"] > MaxDocs) =>
          /\ mode = "all" /\ ~continuous /\ ~metaExists
          /\ v.pc = "off" /\ intr.st = "off"
          /\ \A n \in Names : srcSum[n] = NoSum
    /\ \E foreign \in SUBSET (tgtIdx \cap {"a"}) :
         /\ foreign # {} =>
               /\ mode = "all" /\ "b" \notin srcIdx /\ ~continuous /\ ~metaExists
               /\ v.pc = "off" /\ intr.st = "off"
               /\ \A n \in Names : srcCount[n] <= MaxShared /\ srcSum[n] = NoSum
         /\ tgtFields = [n \in Names |-> IF n \notin tgtIdx THEN {}
                                          ELSE IF n \in foreign THEN FieldNames(n)
                                          ELSE TargetSchema(n)]
    /\ envLeft = IF \/ "b" \in srcIdx \/ srcCount["a"] > MaxDocs
                    \/ (mode = "all" /\ v.pc = "start") \/ intr.st = "armed"
                    \/ \E n \in tgtIdx : ChecksumField \notin tgtFields[n]
                 THEN 0 ELSE MaxEnv
    /\ lastSync = None
    /\ timestampField = None
    /\ indices = <<>>
    /\ cidx = 1
    /\ total = ZeroStats
    /\ w = [n \in Names |-> IdleWorker]
    /\ passes = 0
    /\ saves = 0
    /\ ckptBefore = None
    /\ initNow = None
    /\ born = {}
    /\ fatal = None

(* --------------------------- startup (main) --------------------------- *)
\* (mutant) _check_connections logs a failure and the constructor goes on
CheckConnectionsLogging ==
    /\ pc = "start"
    /\ \E ok \in BOOLEAN :
         /\ pc' = "init_sync"
         /\ fatal' = IF ok THEN fatal ELSE "connection"
    /\ UNCHANGED <<clusterVars, now, envLeft, mode, continuous, v, h, intr, wire, lastSync,
                   timestampField, indices, cidx, total, w, passes, saves,
                   ckptBefore, initNow, born>>

\* _check_connections: a failure is re-raised out of the constructor and main exits 1
CheckConnections ==
    /\ pc = "start"
    /\ \E ok \in BOOLEAN :
         /\ pc' = IF ok THEN "init_sync" ELSE "exit1"
         /\ fatal' = IF ok THEN fatal ELSE "connection"
    /\ UNCHANGED <<clusterVars, now, envLeft, mode, continuous, v, h, intr, wire, lastSync,
                   timestampField, indices, cidx, total, w, passes, saves,
                   ckptBefore, initNow, born>>

\* self.last_sync_time after _init_last_sync_time; fail: a store call raised
LastSyncAfterInit(fail) ==
    IF fail THEN DefaultSyncTime(now)
    ELSE IF ~metaExists THEN lastSync
    ELSE IF ckpt = None THEN DefaultSyncTime(now)
    ELSE FromIsoFormat(ckpt)

InitLastSyncTime ==
    /\ pc = "init_sync"
    /\ \E fail \in BOOLEAN : lastSync' = LastSyncAfterInit(fail)
    /\ initNow' = now
    /\ pc' = IF mode = "all" THEN "discover" ELSE "missing_discover"
    /\ UNCHANGED <<clusterVars, now, envLeft, mode, continuous, v, h, intr, wire, timestampField,
                   indices, cidx, total, w, passes, saves, ckptBefore, fatal, born>>

(* ------------------------------ discovery ----------------------------- *)
\* get_all_indices
GetAllIndices == ListOf({n \in srcIdx : ShouldReplicate(n)})

\* (mutant) the names of the target are not subtracted
GetMissingIndicesIgnoringTarget == ListOf({n \in srcIdx : ShouldReplicate(n)})

\* get_missing_indices
GetMissingIndices == ListOf({n \in srcIdx : ShouldReplicate(n)} \ tgtIdx)

InList(n, idx) == \E k \in 1..Len(idx) : idx[k] = n

(* ----------------------- replicate_all_indices ------------------------ *)
\* where the loop goes when discovery returned idx
AfterDiscovery(idx) == IF idx = <<>> THEN "sleep_empty" ELSE "collect"

\* one iteration of the loop up to the submission of every collection
Discover ==
    /\ pc = "discover"
    /\ passes < MaxPasses
    /\ passes' = passes + 1
    /\ ckptBefore' = ckpt
    /\ \/ /\ pc' = "exit1"
          /\ fatal' = "discovery"
          /\ UNCHANGED <<indices, cidx, total, w>>
       \/ LET idx == GetAllIndices IN
          /\ pc' = AfterDiscovery(idx)
          /\ UNCHANGED fatal
          /\ indices' = idx
          /\ cidx' = 1
          /\ total' = ZeroStats
          /\ w' = [n \in Names |->
                     IF InList(n, idx) THEN [IdleWorker EXCEPT !.pc = "queued"]
                     ELSE IdleWorker]
    /\ UNCHANGED <<clusterVars, now, envLeft, mode, continuous, v, h, intr, wire, lastSync,
                   timestampField, saves, initNow, born>>

\* time.sleep(interval); continue
SleepEmpty ==
    /\ pc = "sleep_empty"
    /\ pc' = "discover"
    /\ UNCHANGED <<clusterVars, now, envLeft, mode, continuous, v, h, intr, wire, lastSync,
                   timestampField, indices, cidx, total, w, histVars>>

Running == {n \in Names : w[n].pc \notin {"idle", "queued", "done"}}

\* (mutant) a pool starts every submitted call at once
PoolHasRoomAlways(busy, size) == TRUE

\* ThreadPoolExecutor(max_workers = size): a submitted call waits in the
\* queue of the pool while size threads are busy
PoolHasRoom(busy, size) == Cardinality(busy) < size

\* the collection pool starts a submitted call
WorkerStart(i) ==
    /\ mode = "all"
    /\ w[i].pc = "queued"
    /\ PoolHasRoom(Running, MaxIndexWorkers)
    /\ w' = [w EXCEPT ![i].pc = "detect"]
    /\ UNCHANGED <<clusterVars, now, envLeft, mode, continuous, v, h, intr, wire, pc, lastSync,
                   timestampField, indices, cidx, total, histVars>>

\* what the future of _replicate_single_index holds when the call r has ended
SingleIndexOutcome(r) ==
    IF r.res = "exc"
    THEN [raised |-> FALSE, stats |-> [processed |-> 0, updated |-> 0, failed |-> 1]]
    ELSE [raised |-> FALSE, stats |-> r.stats]

\* (mutant) the result of a collection replaces the totals: a lost update
AccumulateOverwriting(t, out) ==
    IF out.raised THEN [t EXCEPT !.failed = @ + 1] ELSE out.stats

\* total_stats after future.result() of one collection
Accumulate(t, out) ==
    IF out.raised THEN [t EXCEPT !.failed = @ + 1] ELSE AddStats(t, out.stats)

Collect ==
    /\ pc = "collect"
    /\ cidx <= Len(indices)
    /\ w[indices[cidx]].pc = "done"
    /\ total' = Accumulate(total, SingleIndexOutcome(w[indices[cidx]]))
    /\ cidx' = cidx + 1
    /\ UNCHANGED <<clusterVars, now, envLeft, mode, continuous, v, h, intr, wire, pc, lastSync,
                   timestampField, indices, w, histVars>>

\* (mutant) the loop over index_futures is left before its end
PassCollectedEarly == TRUE

\* the loop over index_futures has taken future.result() of every collection
PassCollected == cidx > Len(indices)

\* the executor block is left and the summary is logged
EndPass ==
    /\ pc = "collect"
    /\ PassCollected
    /\ pc' = "save"
    /\ UNCHANGED <<clusterVars, now, envLeft, mode, continuous, v, h, intr, wire, lastSync,
                   timestampField, indices, cidx, total, w, histVars>>

\* where the loop goes after _save_sync_time
AfterSave == IF continuous THEN "sleep" ELSE "returned"

\* _save_sync_time; step: the store call that raised ("none": no call raised)
SaveSyncTime ==
    /\ pc = "save"
    /\ saves' = saves + 1
    /\ \E us \in Micros, step \in {"none", "exists", "create", "index"} :
         /\ step = "create" => ~metaExists
         /\ step # "none" => us = 0
         /\ now' = DateTime(now.s + 1, us)
         /\ metaExists' = IF step = "exists" \/ step = "create" THEN metaExists ELSE TRUE
         /\ ckpt' = IF step = "none" THEN IsoFormat(now') ELSE ckpt
    /\ pc' = AfterSave
    /\ UNCHANGED <<srcVars, tgtIdx, tgtDocs, tgtFields, tgtRefresh, envLeft, mode, continuous, v, h, intr, wire, lastSync,
                   timestampField, indices, cidx, total, w, passes, ckptBefore, initNow, born,
                   fatal>>

\* time.sleep(interval)
Sleep ==
    /\ pc = "sleep"
    /\ pc' = "discover"
    /\ UNCHANGED <<clusterVars, now, envLeft, mode, continuous, v, h, intr, wire, lastSync,
                   timestampField, indices, cidx, total, w, histVars>>

(* ------------------- interrupt of replicate_all_indices --------------- *)
\* the bulk requests of collection n that are submitted and have not ended
Unfinished(n) == {k \in 1..Len(w[n].futures) : w[n].futures[k].st \in {"run", "sent"}}

\* KeyboardInterrupt in get_all_indices or in time.sleep: the handler of
\* replicate_all_indices logs it and the method returns
InterruptOutsidePass ==
    /\ intr.st = "armed"
    /\ pc \in {"discover", "sleep_empty", "sleep"}
    /\ intr' = [intr EXCEPT !.st = "handled"]
    /\ pc' = "returned"
    /\ UNCHANGED <<clusterVars, now, envLeft, mode, continuous, v, h, wire, lastSync,
                   timestampField, indices, cidx, total, w, histVars>>

\* KeyboardInterrupt inside the executor block, in the loop of submit after
\* sub collections are submitted or in a future.result(): it propagates
\* through the exit of the block, which waits for what was submitted
InterruptInPass ==
    /\ intr.st = "armed"
    /\ pc = "collect"
    /\ \E sub \in 0..Len(indices) :
         /\ sub < Len(indices) => cidx = 1
         /\ \A k \in (sub + 1)..Len(indices) : w[indices[k]].pc = "queued"
         /\ w' = [n \in Names |->
                    IF \E k \in (sub + 1)..Len(indices) : indices[k] = n
                    THEN IdleWorker ELSE w[n]]
         /\ intr' = [st |-> "raised",
                     busy |-> {n \in Names : w'[n].pc \notin {"idle", "done"}},
                     flying |-> Cardinality(UNION {{<<n, k>> : k \in Unfinished(n)} : n \in Names})]
    /\ pc' = "executor_exit"
    /\ UNCHANGED <<clusterVars, now, envLeft, mode, continuous, v, h, wire, lastSync,
                   timestampField, indices, cidx, total, histVars>>

\* (mutant) the block is left without waiting
ExecutorDrainedAbandoning == TRUE

\* ThreadPoolExecutor.__exit__: shutdown(wait=True) has joined the workers
ExecutorDrained == \A n \in Names : w[n].pc \in {"idle", "done"}

\* the block is left and the handler returns
ExecutorExit ==
    /\ pc = "executor_exit"
    /\ ExecutorDrained
    /\ intr' = [intr EXCEPT !.st = "handled"]
    /\ pc' = "returned"
    /\ UNCHANGED <<clusterVars, now, envLeft, mode, continuous, v, h, wire, lastSync,
                   timestampField, indices, cidx, total, w, histVars>>

\* KeyboardInterrupt in a store call of _save_sync_time: its handler takes
\* Exception only; step is the call it came in, sent whether the store had
\* the request of that call
InterruptInSave ==
    /\ intr.st = "armed"
    /\ pc = "save"
    /\ saves' = saves + 1
    /\ \E us \in Micros, step \in {"exists", "create", "index"}, sent \in BOOLEAN :
         /\ step = "create" => ~metaExists
         /\ now' = DateTime(now.s + 1, us)
         /\ metaExists' = IF step = "exists" THEN metaExists
                          ELSE IF step = "create" THEN sent
                          ELSE TRUE
         /\ ckpt' = IF step = "index" /\ sent THEN IsoFormat(now') ELSE ckpt
    /\ intr' = [intr EXCEPT !.st = "handled"]
    /\ pc' = "returned"
    /\ UNCHANGED <<srcVars, tgtIdx, tgtDocs, tgtFields, tgtRefresh, envLeft, mode, continuous, v, h, wire,
                   lastSync, timestampField, indices, cidx, total, w, passes, ckptBefore,
                   initNow, fatal, born>>

(* --------------------- replicate_missing_indices ---------------------- *)
MissingDiscover ==
    /\ pc = "missing_discover"
    /\ \/ /\ pc' = "exit1"
          /\ fatal' = "discovery"
          /\ UNCHANGED <<indices, cidx, total, w>>
       \/ LET idx == GetMissingIndices IN
          /\ pc' = IF idx = <<>> THEN "returned" ELSE "missing_loop"
          /\ UNCHANGED fatal
          /\ indices' = idx
          /\ cidx' = 1
          /\ total' = ZeroStats
          /\ w' = [n \in Names |-> IdleWorker]
    /\ UNCHANGED <<clusterVars, now, envLeft, mode, continuous, v, h, intr, wire, lastSync,
                   timestampField, passes, saves, ckptBefore, initNow, born>>

\* the loop body starts for the next collection, in the main thread
MissingStart ==
    /\ pc = "missing_loop"
    /\ cidx <= Len(indices)
    /\ w' = [w EXCEPT ![indices[cidx]].pc = "detect"]
    /\ pc' = "missing_wait"
    /\ UNCHANGED <<clusterVars, now, envLeft, mode, continuous, v, h, intr, wire, lastSync,
                   timestampField, indices, cidx, total, histVars>>

\* (mutant) the loop has no handler of its own: an exception of the call leaves it
MissingAfterIndexUncaught(r) == IF r.res = "exc" THEN "exit1" ELSE "missing_loop"

\* where the loop of replicate_missing_indices goes when the call r has ended
MissingAfterIndex(r) == "missing_loop"

\* total_stats of replicate_missing_indices after the call r
MissingAccumulate(t, r) ==
    IF r.res = "exc" THEN [t EXCEPT !.failed = @ + 1] ELSE AddStats(t, r.stats)

MissingCollect ==
    /\ pc = "missing_wait"
    /\ w[indices[cidx]].pc = "done"
    /\ total' = MissingAccumulate(total, w[indices[cidx]])
    /\ cidx' = cidx + 1
    /\ pc' = MissingAfterIndex(w[indices[cidx]])
    /\ fatal' = IF pc' = "exit1" THEN "collection" ELSE fatal
    /\ UNCHANGED <<clusterVars, now, envLeft, mode, continuous, v, h, intr, wire, lastSync,
                   timestampField, indices, w, passes, saves, ckptBefore, initNow, born>>

MissingEnd ==
    /\ pc = "missing_loop"
    /\ cidx > Len(indices)
    /\ pc' = "returned"
    /\ UNCHANGED <<clusterVars, now, envLeft, mode, continuous, v, h, intr, wire, lastSync,
                   timestampField, indices, cidx, total, w, histVars>>

(* -------------- _replicate_single_index / replicate_index ------------- *)
coordVars == <<now, mode, continuous, v, h, intr, wire, pc, lastSync, indices, cidx, total, histVars>>

\* The answer of the source to a call on collection i.  gone: another client
\* has deleted the collection since the last call on it.
SourceAnswer(i, gone) ==
    /\ gone => envLeft > 0 /\ i \in srcIdx
    /\ srcIdx' = IF gone THEN srcIdx \ {i} ELSE srcIdx
    /\ srcCount' = IF gone THEN [srcCount EXCEPT ![i] = 0] ELSE srcCount
    /\ envLeft' = IF gone THEN envLeft - 1 ELSE envLeft
    /\ UNCHANGED <<srcSum, srcRefresh, tgtIdx, tgtDocs, tgtFields, metaExists, ckpt>>

\* The answer of the target to a call on collection i, likewise.
TargetAnswer(i, gone) ==
    /\ gone => envLeft > 0 /\ i \in tgtIdx
    /\ tgtIdx' = IF gone THEN tgtIdx \ {i} ELSE tgtIdx
    /\ tgtDocs' = IF gone THEN [tgtDocs EXCEPT ![i] = << >>] ELSE tgtDocs
    /\ tgtFields' = IF gone THEN [tgtFields EXCEPT ![i] = {}] ELSE tgtFields
    /\ envLeft' = IF gone THEN envLeft - 1 ELSE envLeft
    /\ UNCHANGED <<srcVars, metaExists, ckpt>>

\* the call r ends: res "ret" returns r.stats, res "exc" raises
Finish(r, res, exit) == [r EXCEPT !.pc = "done", !.res = res, !.exit = exit, !.at = r.pc]

\* the handlers of replicate_index: NotFoundError returns stats, others re-raise
Handled(r, exc) ==
    IF exc = "notfound" THEN Finish(r, "ret", "notfound") ELSE Finish(r, "exc", "error")

\* self.timestamp_field = self._detect_timestamp_field(index); a failure gives None
Detect(i) ==
    /\ w[i].pc = "detect"
    /\ \E fail \in BOOLEAN :
         LET f == IF fail \/ i \notin srcIdx THEN None ELSE DetectTimestampField(i) IN
         /\ timestampField' = f
         /\ w' = [w EXCEPT ![i].pc = "ts_test", ![i].detected = f]
    /\ UNCHANGED <<clusterVars, envLeft, coordVars>>

\* `if self.timestamp_field:` reads the attribute of the replicator, which every
\* worker of the pass assigns
TimestampTest(i) ==
    /\ w[i].pc = "ts_test"
    /\ w' = IF timestampField # None
            THEN [w EXCEPT ![i].pc = "ts_log"]
            ELSE [w EXCEPT ![i].pc = "put_off", ![i].logged = None]
    /\ UNCHANGED <<clusterVars, envLeft, timestampField, coordVars>>

\* logging.info(f"Using timestamp field: {self.timestamp_field} for index {index}")
\* reads the attribute again
TimestampLog(i) ==
    /\ w[i].pc = "ts_log"
    /\ w' = [w EXCEPT ![i].pc = "put_off", ![i].logged = timestampField]
    /\ UNCHANGED <<clusterVars, envLeft, timestampField, coordVars>>

\* (mutant) the setting is put on the collection of both clusters
PutSettingsOffBothClusters(i) ==
    /\ w[i].pc = "put_off"
    /\ LET r == [w[i] EXCEPT !.srcAt = i \in srcIdx, !.tgtAt = i \in tgtIdx,
                             !.detected = "unset", !.logged = "unset"] IN
       \/ /\ w' = [w EXCEPT ![i] = Handled(r, "error")]
          /\ UNCHANGED <<tgtRefresh, srcRefresh>>
       \/ /\ i \notin tgtIdx
          /\ w' = [w EXCEPT ![i] = Handled(r, "notfound")]
          /\ UNCHANGED <<tgtRefresh, srcRefresh>>
       \/ /\ i \in tgtIdx
          /\ tgtRefresh' = [tgtRefresh EXCEPT ![i] = "-1"]
          /\ srcRefresh' = [srcRefresh EXCEPT ![i] = "-1"]
          /\ w' = [w EXCEPT ![i] = [r EXCEPT !.pc = "src_exists", !.disabled = TRUE]]
    /\ UNCHANGED <<srcIdx, srcCount, srcSum, tgtIdx, tgtDocs, tgtFields, metaExists, ckpt, envLeft, timestampField,
                   coordVars>>

\* put_settings(refresh_interval = "-1") on the target collection
PutSettingsOff(i) ==
    /\ w[i].pc = "put_off"
    /\ LET r == [w[i] EXCEPT !.srcAt = i \in srcIdx, !.tgtAt = i \in tgtIdx,
                             !.detected = "unset", !.logged = "unset"] IN
       \/ /\ w' = [w EXCEPT ![i] = Handled(r, "error")]
          /\ UNCHANGED tgtRefresh
       \/ /\ i \notin tgtIdx
          /\ w' = [w EXCEPT ![i] = Handled(r, "notfound")]
          /\ UNCHANGED tgtRefresh
       \/ /\ i \in tgtIdx
          /\ tgtRefresh' = [tgtRefresh EXCEPT ![i] = "-1"]
          /\ w' = [w EXCEPT ![i] = [r EXCEPT !.pc = "src_exists", !.disabled = TRUE]]
    /\ UNCHANGED <<srcVars, tgtIdx, tgtDocs, tgtFields, metaExists, ckpt, envLeft, timestampField,
                   coordVars>>

\* source_es.indices.exists: an absent source collection returns the empty stats
SourceExists(i) ==
    /\ w[i].pc = "src_exists"
    /\ \E gone \in BOOLEAN :
         /\ SourceAnswer(i, gone)
         /\ \/ w' = [w EXCEPT ![i] = Handled(@, "error")]
            \/ /\ i \notin srcIdx'
               /\ w' = [w EXCEPT ![i] = Finish(@, "ret", "src_absent")]
            \/ /\ i \in srcIdx'
               /\ w' = [w EXCEPT ![i].pc = "get_defs"]
    /\ UNCHANGED <<tgtRefresh, timestampField, coordVars>>

\* get_settings and get_mapping of the source collection
GetDefinitions(i) ==
    /\ w[i].pc = "get_defs"
    /\ \E gone \in BOOLEAN :
         /\ SourceAnswer(i, gone)
         /\ \/ w' = [w EXCEPT ![i] = Handled(@, "error")]
            \/ /\ i \notin srcIdx'
               /\ w' = [w EXCEPT ![i] = Handled(@, "notfound")]
            \/ /\ i \in srcIdx'
               /\ w' = [w EXCEPT ![i].pc = "tgt_exists"]
    /\ UNCHANGED <<tgtRefresh, timestampField, coordVars>>

\* (mutant) _create_target_index is called whatever indices.exists answers
AfterTargetExistsCreating(exists) == "create"

\* if not self.target_es.indices.exists(...): self._create_target_index(...)
AfterTargetExists(exists) == IF exists THEN "count" ELSE "create"

\* target_es.indices.exists decides whether _create_target_index is called
TargetExists(i) ==
    /\ w[i].pc = "tgt_exists"
    /\ \E gone \in BOOLEAN :
         /\ TargetAnswer(i, gone)
         /\ \/ w' = [w EXCEPT ![i] = Handled(@, "error")]
            \/ w' = [w EXCEPT ![i].pc = AfterTargetExists(i \in tgtIdx')]
    /\ tgtRefresh' = IF i \in tgtIdx' THEN tgtRefresh ELSE [tgtRefresh EXCEPT ![i] = "1s"]
    /\ UNCHANGED <<timestampField, coordVars>>

\* (mutant) a failed indices.create is tried once more
AfterCreateFailureRetrying(r) ==
    IF r.creates < 2 THEN [r EXCEPT !.pc = "create"] ELSE Handled(r, "error")

\* the handler of _create_target_index logs and re-raises; the exception
\* reaches the handlers of replicate_index
AfterCreateFailure(r) == Handled(r, "error")

\* _create_target_index: a failure is logged and re-raised
CreateTargetIndex(i) ==
    /\ w[i].pc = "create"
    /\ \/ /\ w' = [w EXCEPT ![i] = AfterCreateFailure([@ EXCEPT !.creates = @ + 1])]
          /\ UNCHANGED <<tgtIdx, tgtDocs, tgtFields, tgtRefresh>>
       \/ /\ i \notin tgtIdx
          /\ tgtIdx' = tgtIdx \cup {i}
          /\ tgtDocs' = [tgtDocs EXCEPT ![i] = << >>]
          /\ tgtFields' = [tgtFields EXCEPT ![i] = TargetSchema(i)]
          /\ tgtRefresh' = [tgtRefresh EXCEPT ![i] = "1s"]
          /\ w' = [w EXCEPT ![i] = [@ EXCEPT !.pc = "count", !.created = TRUE,
                                            !.creates = @ + 1]]
    /\ UNCHANGED <<srcVars, metaExists, ckpt, envLeft, timestampField, coordVars>>

\* source_es.count: an empty source collection returns the empty stats
Count(i) ==
    /\ w[i].pc = "count"
    /\ \E gone \in BOOLEAN :
         /\ SourceAnswer(i, gone)
         /\ \/ w' = [w EXCEPT ![i] = Handled(@, "error")]
            \/ /\ i \notin srcIdx'
               /\ w' = [w EXCEPT ![i] = Handled(@, "notfound")]
            \/ /\ i \in srcIdx'
               /\ srcCount[i] = 0
               /\ w' = [w EXCEPT ![i] = Finish(@, "ret", "empty")]
            \/ /\ i \in srcIdx'
               /\ srcCount[i] > 0
               /\ w' = [w EXCEPT ![i] = [@ EXCEPT !.pc = "scan", !.snap = srcCount[i]]]
    /\ UNCHANGED <<tgtRefresh, timestampField, coordVars>>

\* batch_iterator: the next window of a scan with `left` documents to come
BatchIterator(left) == Min(BatchSize, left)

\* (mutant) the handler is around the loop: the first failure ends the batch
ProcessBatchAborting(r, n, bad) ==
    [r EXCEPT !.stats.failed = @ + (IF bad > 0 THEN 1 ELSE 0),
              !.hashFail = @ + bad,
              !.actions = IF bad > 0 THEN 0 ELSE n,
              !.pos = @ + n]

\* process_batch on n documents of which bad cannot be fingerprinted:
\* the failures are counted and the others become the actions of the batch
ProcessBatch(r, n, bad) ==
    [r EXCEPT !.stats.failed = @ + bad,
              !.hashFail = @ + bad,
              !.actions = n - bad,
              !.pos = @ + n]

\* executor.submit(helpers.bulk, ...) when actions is not empty
Submit(r) ==
    IF r.actions > 0
    THEN [r EXCEPT !.futures = Append(@, [n |-> r.actions, lo |-> r.pos - r.actions + 1,
                                            st |-> "run", succ |-> 0, fail |-> 0])]
    ELSE r

\* one iteration of the loop over the scan; an exception leaves the executor
\* block, which first waits for the submitted futures
ScanBatch(i) ==
    /\ w[i].pc = "scan"
    /\ \E gone \in BOOLEAN :
         /\ SourceAnswer(i, gone)
         /\ \/ w' = [w EXCEPT ![i] = [@ EXCEPT !.pc = "drain", !.pend = "error"]]
            \/ /\ i \notin srcIdx'
               /\ w' = [w EXCEPT ![i] = [@ EXCEPT !.pc = "drain", !.pend = "notfound"]]
            \/ /\ i \in srcIdx'
               /\ LET n == BatchIterator(w[i].snap - w[i].pos) IN
                  \E bad \in 0..n :
                    LET r == Submit(ProcessBatch(w[i], n, bad)) IN
                    w' = [w EXCEPT ![i] =
                            [r EXCEPT !.pc = IF r.pos = r.snap THEN "results" ELSE "scan"]]
    /\ UNCHANGED <<tgtRefresh, timestampField, coordVars>>

\* the document with the given id of source collection i
SourceDoc(i, id) == [body |-> id, sum |-> srcSum[i]]

\* the index actions of future f that the target accepts, by document id: the
\* batch holds the documents f.lo .. f.lo + f.n - 1 and the last rej of
\* them are rejected
BulkActions(i, f, rej) ==
    [id \in f.lo .. (f.lo + f.n - rej - 1) |-> ActionSource(SourceDoc(i, id))]

\* the bulk requests of collection i that a thread of the document pool runs
InFlight(i) == {k \in 1..Len(w[i].futures) : w[i].futures[k].st = "sent"}

\* a thread of the document pool takes the oldest submitted call off the queue
BulkStart(i, k) ==
    /\ k \in 1..Len(w[i].futures)
    /\ w[i].futures[k].st = "run"
    /\ \A j \in 1..(k - 1) : w[i].futures[j].st # "run"
    /\ PoolHasRoom(InFlight(i), MaxWorkers)
    /\ w' = [w EXCEPT ![i].futures[k].st = "sent"]
    /\ UNCHANGED <<clusterVars, envLeft, timestampField, coordVars>>

\* helpers.bulk in a thread of the document pool: it returns (success, failed)
\* or raises on a transport error; a successful write implies the collection
BulkRun(i, k) ==
    /\ k \in InFlight(i)
    /\ LET f == w[i].futures[k] IN
       \/ /\ w' = [w EXCEPT ![i] = [@ EXCEPT !.futures[k].st = "exc", !.lost = @ + f.n]]
          /\ UNCHANGED <<tgtIdx, tgtDocs, tgtFields>>
       \/ \E rej \in 0..f.n :
            /\ w' = [w EXCEPT ![i] =
                       [@ EXCEPT !.futures[k] = [f EXCEPT !.st = "ok",
                                                          !.succ = f.n - rej,
                                                          !.fail = rej],
                                 !.rejected = @ + rej]]
            /\ tgtIdx' = IF rej < f.n THEN tgtIdx \cup {i} ELSE tgtIdx
            /\ tgtDocs' = [tgtDocs EXCEPT ![i] = Upsert(@, BulkActions(i, f, rej))]
            /\ tgtFields' = IF rej < f.n
                            THEN [tgtFields EXCEPT ![i] = @ \cup ActionFields(i)]
                            ELSE tgtFields
    /\ UNCHANGED <<srcVars, tgtRefresh, metaExists, ckpt, envLeft, timestampField, coordVars>>

\* (mutant) processed counts the rejected documents of a request too
BulkResultCountingRejected(st, f, actions) ==
    IF f.st = "ok"
    THEN [processed |-> st.processed + f.succ + f.fail,
          updated   |-> st.updated + f.succ,
          failed    |-> st.failed + f.fail]
    ELSE [st EXCEPT !.failed = @ + actions]

\* the stats after future.result() of future f; actions is len(actions) as the
\* scan loop left it
BulkResult(st, f, actions) ==
    IF f.st = "ok"
    THEN [processed |-> st.processed + f.succ,
          updated   |-> st.updated + f.succ,
          failed    |-> st.failed + f.fail]
    ELSE [st EXCEPT !.failed = @ + actions]

CollectBulk(i) ==
    /\ w[i].pc = "results"
    /\ w[i].fidx <= Len(w[i].futures)
    /\ w[i].fidx \notin Unfinished(i)
    /\ w' = [w EXCEPT ![i] =
               [@ EXCEPT !.stats = BulkResult(@, w[i].futures[w[i].fidx], w[i].actions),
                         !.fidx = @ + 1]]
    /\ UNCHANGED <<clusterVars, envLeft, timestampField, coordVars>>

\* every result is collected: the executor block is left
ResultsDone(i) ==
    /\ w[i].pc = "results"
    /\ w[i].fidx > Len(w[i].futures)
    /\ w' = [w EXCEPT ![i].pc = "restore"]
    /\ UNCHANGED <<clusterVars, envLeft, timestampField, coordVars>>

\* put_settings(refresh_interval = "1s"), then return stats
Restore(i) ==
    /\ w[i].pc = "restore"
    /\ \E gone \in BOOLEAN :
         /\ TargetAnswer(i, gone)
         /\ \/ /\ w' = [w EXCEPT ![i] = Handled(@, "error")]
               /\ tgtRefresh' = IF gone THEN [tgtRefresh EXCEPT ![i] = "1s"] ELSE tgtRefresh
            \/ /\ i \notin tgtIdx'
               /\ w' = [w EXCEPT ![i] = Handled(@, "notfound")]
               /\ tgtRefresh' = IF gone THEN [tgtRefresh EXCEPT ![i] = "1s"] ELSE tgtRefresh
            \/ /\ i \in tgtIdx'
               /\ tgtRefresh' = [tgtRefresh EXCEPT ![i] = "1s"]
               /\ w' = [w EXCEPT ![i] = Finish(@, "ret", "normal")]
    /\ UNCHANGED <<timestampField, coordVars>>

\* an exception raised in the scan loop passes the executor block once every
\* submitted future has ended, and reaches the handlers
Drain(i) ==
    /\ w[i].pc = "drain"
    /\ Unfinished(i) = {}
    /\ w' = [w EXCEPT ![i] = Handled(@, w[i].pend)]
    /\ UNCHANGED <<clusterVars, envLeft, timestampField, coordVars>>

(* ------------------ --verify-only: verify_replication ----------------- *)
\* (mutant) the sampling refreshes the target collections first
VerifyRefreshing ==
    /\ tgtRefresh' = [n \in Names |-> "1s"]
    /\ UNCHANGED <<srcVars, tgtIdx, tgtDocs, tgtFields, metaExists, ckpt>>

\* the store calls of verify_replication (indices.get, count, search)
VerifyReads == UNCHANGED clusterVars

replVars == <<now, envLeft, mode, continuous, h, intr, wire, pc, lastSync, timestampField, indices,
              cidx, total, w, histVars>>

\* main with --verify-only after verify_replication returned st
VerifyExit(st) == IF st.mismatches > 0 THEN "exit1" ELSE "exit0"

\* (mutant) an exception of the loop body is not caught: it ends the loop
AdvanceRaising(r, path, st, ss, ts) ==
    [r EXCEPT !.stats = st,
              !.idx = @ + 1,
              !.pc = IF r.idx + 1 > Len(r.list) \/ path \in {"error", "samplefail"}
                     THEN VerifyExit(st) ELSE "get",
              !.errs = IF path \in {"error", "samplefail"} THEN @ + 1 ELSE @,
              !.last = [name |-> r.list[r.idx], path |-> path, pre |-> r.pre,
                        sc |-> r.sc, tc |-> r.tc, ss |-> ss, ts |-> ts]]

\* the loop leaves the collection on the given path with report st
Advance(r, path, st, ss, ts) ==
    [r EXCEPT !.stats = st,
              !.idx = @ + 1,
              !.pc = IF r.idx + 1 > Len(r.list) THEN VerifyExit(st) ELSE "get",
              !.errs = IF path \in {"error", "samplefail"} THEN @ + 1 ELSE @,
              !.last = [name |-> r.list[r.idx], path |-> path, pre |-> r.pre,
                        sc |-> r.sc, tc |-> r.tc, ss |-> ss, ts |-> ts]]

\* the constructor and get_all_indices of the verifying process; an
\* exception of either is fatal, an empty list ends the process
VerifyStart ==
    /\ v.pc = "start"
    /\ \/ v' = [v EXCEPT !.pc = "exit1"]
       \/ LET idx == GetAllIndices IN
          v' = [v EXCEPT !.pc = IF idx = << >> THEN "returned" ELSE "get",
                         !.list = idx,
                         !.after = (mode = "all" /\ pc = "returned")]
    /\ UNCHANGED <<clusterVars, replVars>>

\* (mutant) an absent collection is counted as missing only
VerifyMissingUncounted(st) == [st EXCEPT !.missing_indices = @ + 1]

\* the NotFoundError handler of the existence check
VerifyMissing(st) ==
    [st EXCEPT !.mismatches = @ + 1, !.missing_indices = @ + 1]

\* target_es.indices.get, then source_es.indices.get
VerifyGet ==
    /\ v.pc = "get"
    /\ LET i == v.list[v.idx]
           r == [v EXCEPT !.pre = v.stats, !.sc = 0, !.tc = 0] IN
       \/ v' = Advance(r, "error", r.stats, << >>, << >>)
       \/ /\ i \notin tgtIdx \/ i \notin srcIdx
          /\ v' = Advance(r, "missing", VerifyMissing(r.stats), << >>, << >>)
       \/ /\ i \in tgtIdx /\ i \in srcIdx
          /\ v' = [r EXCEPT !.pc = "count"]
    /\ VerifyReads
    /\ UNCHANGED replVars

\* (mutant) only a target that lags behind the source is a count mismatch
CountCompareLagOnly(st, sc, tc) ==
    IF sc > tc
    THEN [st EXCEPT !.mismatches = @ + (sc - tc), !.count_mismatches = @ + (sc - tc)]
    ELSE st

\* the comparison of source_count and target_count
CountCompare(st, sc, tc) ==
    IF sc # tc
    THEN LET diff == IF sc > tc THEN sc - tc ELSE tc - sc IN
         [st EXCEPT !.mismatches = @ + diff, !.count_mismatches = @ + diff]
    ELSE st

\* source_es.count and target_es.count, the comparison, and sample_size
VerifyCount ==
    /\ v.pc = "count"
    /\ LET i == v.list[v.idx] IN
       \/ v' = Advance(v, "error", v.stats, << >>, << >>)
       \/ /\ i \in srcIdx /\ i \in tgtIdx
          /\ LET sc == srcCount[i]
                 tc == Cardinality(DOMAIN tgtDocs[i])
                 r  == [v EXCEPT !.sc = sc, !.tc = tc,
                                 !.stats = CountCompare(v.stats, sc, tc)] IN
             v' = IF Min(SampleMax, sc) = 0
                  THEN Advance(r, "empty", r.stats, << >>, << >>)
                  ELSE [r EXCEPT !.pc = "sample"]
    /\ VerifyReads
    /\ UNCHANGED replVars

\* the answers a search of the given size may give on documents docs
\* (id -> document): that many of them, or all when there are fewer, each
\* with what its checksum field holds
SearchSamples(docs, size) ==
    { [id \in S |-> docs[id].sum] :
          S \in {T \in SUBSET DOMAIN docs : Cardinality(T) = Min(size, Cardinality(DOMAIN docs))} }

\* (mutant) an id that the target sample lacks is passed over
CompareOneIgnoringAbsent(st, id, ss, ts) ==
    IF id \notin DOMAIN ts THEN st
    ELSE IF ss[id] # ts[id]
    THEN [st EXCEPT !.mismatches = @ + 1, !.checked = @ + 1]
    ELSE [st EXCEPT !.checked = @ + 1]

\* the body of the loop over source_sample for doc_id = id
CompareOne(st, id, ss, ts) ==
    IF id \notin DOMAIN ts
    THEN [st EXCEPT !.mismatches = @ + 1, !.checked = @ + 1]
    ELSE IF ss[id] # ts[id]
    THEN [st EXCEPT !.mismatches = @ + 1, !.checked = @ + 1]
    ELSE [st EXCEPT !.checked = @ + 1]

RECURSIVE CompareSamples(_, _, _, _)
\* the loop over the ids todo of source_sample
CompareSamples(st, todo, ss, ts) ==
    IF todo = {} THEN st
    ELSE LET id == CHOOSE x \in todo : \A y \in todo : x <= y IN
         CompareSamples(CompareOne(st, id, ss, ts), todo \ {id}, ss, ts)

\* the two searches and the comparison; an exception is logged and the
\* loop goes on with the next collection
VerifySample ==
    /\ v.pc = "sample"
    /\ LET i == v.list[v.idx]
           size == Min(SampleMax, v.sc) IN
       \/ v' = Advance(v, "samplefail", v.stats, << >>, << >>)
       \/ /\ i \in srcIdx /\ i \in tgtIdx
          /\ \E ss \in SearchSamples([id \in 1..srcCount[i] |-> SourceDoc(i, id)], size),
                ts \in SearchSamples(tgtDocs[i], size) :
               v' = Advance(v, "sampled", CompareSamples(v.stats, DOMAIN ss, ss, ts), ss, ts)
    /\ VerifyReads
    /\ UNCHANGED replVars

\* another client deletes the source collection that is verified next
OtherClientDeletes ==
    /\ mode = "verify"
    /\ v.pc = "get"
    /\ envLeft > 0
    /\ v.list[v.idx] \in srcIdx
    /\ srcIdx' = srcIdx \ {v.list[v.idx]}
    /\ srcCount' = [srcCount EXCEPT ![v.list[v.idx]] = 0]
    /\ envLeft' = envLeft - 1
    /\ UNCHANGED <<srcSum, srcRefresh, tgtIdx, tgtDocs, tgtFields, tgtRefresh, metaExists, ckpt, now,
                   mode, continuous, v, h, intr, wire, pc, lastSync, timestampField, indices, cidx,
                   total, w, histVars>>

\* another client creates collection "b" on the source, with MaxShared
\* documents, while the collections of a pass are replicated
OtherClientCreates ==
    /\ mode = "all"
    /\ continuous
    /\ pc = "collect"
    /\ envLeft > 0
    /\ "b" \notin srcIdx
    /\ srcIdx' = srcIdx \cup {"b"}
    /\ srcCount' = [srcCount EXCEPT !["b"] = MaxShared]
    /\ envLeft' = envLeft - 1
    /\ born' = born \cup {"b"}
    /\ UNCHANGED <<srcSum, srcRefresh, tgtIdx, tgtDocs, tgtFields, tgtRefresh, metaExists, ckpt, now,
                   mode, continuous, v, h, intr, wire, pc, lastSync, timestampField, indices, cidx,
                   total, w, passes, saves, ckptBefore, initNow, fatal>>

(* --------------------------- specification ---------------------------- *)
Next ==
    \/ CheckConnections
    \/ InitLastSyncTime
    \/ Discover
    \/ SleepEmpty
    \/ Collect
    \/ EndPass
    \/ SaveSyncTime
    \/ Sleep
    \/ MissingDiscover
    \/ MissingStart
    \/ MissingCollect
    \/ MissingEnd
    \/ VerifyStart
    \/ VerifyGet
    \/ VerifyCount
    \/ VerifySample
    \/ OtherClientDeletes
    \/ OtherClientCreates
    \/ InterruptOutsidePass
    \/ InterruptInPass
    \/ ExecutorExit
    \/ InterruptInSave
    \/ \E i \in Names :
         \/ WorkerStart(i)
         \/ Detect(i)
         \/ TimestampTest(i)
         \/ TimestampLog(i)
         \/ PutSettingsOff(i)
         \/ SourceExists(i)
         \/ GetDefinitions(i)
         \/ TargetExists(i)
         \/ CreateTargetIndex(i)
         \/ Count(i)
         \/ ScanBatch(i)
         \/ \E k \in 1..MaxPoolDocs : BulkStart(i, k)
         \/ \E k \in 1..MaxPoolDocs : BulkRun(i, k)
         \/ CollectBulk(i)
         \/ ResultsDone(i)
         \/ Restore(i)
         \/ Drain(i)

Spec == Init /\ [][Next]_vars

(* ------------ bulk requests that the transport sends again ------------ *)
RECURSIVE ScanAll(_)
\* the call r after the loop over the scan, every document fingerprinted
ScanAll(r) ==
    IF r.pos = r.snap THEN r
    ELSE ScanAll(Submit(ProcessBatch(r, BatchIterator(r.snap - r.pos), 0)))

\* the attempts of the requests fs: request k is sent tries[k] times
\* (options(max_retries=5, retry_on_timeout=True)), every attempt with the
\* actions of the request
Attempts(fs, tries) ==
    {[fut |-> kt[1], try |-> kt[2],
      left |-> fs[kt[1]].lo .. (fs[kt[1]].lo + fs[kt[1]].n - 1)] :
         kt \in {x \in (1..Len(fs)) \X (1..MaxAttempts) : x[2] <= tries[x[1]]}}

\* Collection a is on both clusters and its call has submitted every batch
\* of the scan; the pool runs the requests, and the target has not answered
\* some of them in time, so that their attempts are under way together.
InitRetry ==
    /\ srcIdx = {".m", "a"}
    /\ srcCount \in {[n \in Names |-> IF n = "a" THEN c ELSE 0] : c \in 1..MaxDocs}
    /\ srcSum \in {[n \in Names |-> IF n = "a" THEN x ELSE NoSum] :
                      x \in {NoSum, GenerateDocHash([body |-> 0, sum |-> NoSum])}}
    /\ srcRefresh = [n \in Names |-> "1s"]
    /\ tgtIdx = {"a"}
    /\ tgtDocs \in {[n \in Names |-> IF n = "a" THEN f ELSE << >>] :
                       f \in TargetDocChoices(srcCount["a"], srcSum["a"])}
    /\ tgtFields = [n \in Names |-> IF n = "a" THEN TargetSchema(n) ELSE {}]
    /\ tgtRefresh = [n \in Names |-> IF n = "a" THEN "-1" ELSE "1s"]
    /\ metaExists = FALSE
    /\ ckpt = None
    /\ now = DateTime(100000, 0)
    /\ envLeft = 0
    /\ mode = "all"
    /\ continuous = FALSE
    /\ v = IdleVerifier
    /\ h = IdleHash
    /\ intr = NoInterrupt
    /\ pc = "collect"
    /\ lastSync = None
    /\ timestampField = DetectTimestampField("a")
    /\ indices = <<"a">>
    /\ cidx = 1
    /\ total = ZeroStats
    /\ LET r == ScanAll([IdleWorker EXCEPT !.pc = "results", !.snap = srcCount["a"],
                                           !.disabled = TRUE, !.srcAt = TRUE,
                                           !.tgtAt = TRUE]) IN
       /\ w = [n \in Names |->
                 IF n = "a"
                 THEN [r EXCEPT !.futures = [k \in 1..Len(r.futures) |->
                                                [r.futures[k] EXCEPT !.st = "sent"]]]
                 ELSE IdleWorker]
       /\ wire \in {Attempts(r.futures, tries) :
                       tries \in [1..Len(r.futures) -> 1..MaxAttempts]}
    /\ passes = 1
    /\ saves = 0
    /\ ckptBefore = None
    /\ initNow = DateTime(100000, 0)
    /\ born = {}
    /\ fatal = None

\* the target executes the index action for document id of attempt a
AttemptWrites(a, id) ==
    /\ a \in wire
    /\ id \in a.left
    /\ wire' = (wire \ {a}) \cup {[a EXCEPT !.left = @ \ {id}]}
    /\ tgtDocs' = [tgtDocs EXCEPT !["a"] = Upsert(@, BulkActions("a", [lo |-> id, n |-> 1], 0))]
    /\ UNCHANGED <<srcVars, tgtIdx, tgtFields, tgtRefresh, metaExists, ckpt, now, envLeft,
                   mode, continuous, v, h, intr, pc, lastSync, timestampField, indices,
                   cidx, total, w, histVars>>

\* every attempt of request k has ended: helpers.bulk returns
AttemptsReturn(k) ==
    /\ k \in InFlight("a")
    /\ \A a \in wire : a.fut = k => a.left = {}
    /\ w' = [w EXCEPT !["a"].futures[k] = [@ EXCEPT !.st = "ok", !.succ = w["a"].futures[k].n]]
    /\ UNCHANGED <<clusterVars, now, envLeft, mode, continuous, v, h, intr, wire, pc,
                   lastSync, timestampField, indices, cidx, total, histVars>>

NextRetry ==
    \/ \E a \in wire : \E id \in 1..MaxDocs : AttemptWrites(a, id)
    \/ \E k \in 1..MaxDocs : AttemptsReturn(k)

SpecRetry == InitRetry /\ [][NextRetry]_vars

(* ------------- _generate_doc_hash on two given field maps ------------- *)
progVars == <<clusterVars, now, envLeft, mode, continuous, v, intr, wire, pc, lastSync,
              timestampField, indices, cidx, total, w, histVars>>

\* no process runs; two field maps are given
InitHash ==
    /\ h \in {[IdleHash EXCEPT !.pc = "given", !.a = a, !.b = b] : a, b \in FieldMaps}
    /\ srcIdx = {".m"}
    /\ srcCount = [n \in Names |-> 0]
    /\ srcSum = [n \in Names |-> NoSum]
    /\ srcRefresh = [n \in Names |-> "1s"]
    /\ tgtIdx = {}
    /\ tgtDocs = [n \in Names |-> << >>]
    /\ tgtFields = [n \in Names |-> {}]
    /\ tgtRefresh = [n \in Names |-> "1s"]
    /\ metaExists = FALSE
    /\ ckpt = None
    /\ now = DateTime(100000, 0)
    /\ envLeft = 0
    /\ mode = "verify"
    /\ continuous = FALSE
    /\ v = IdleVerifier
    /\ intr = NoInterrupt
    /\ wire = {}
    /\ pc = "off"
    /\ lastSync = None
    /\ timestampField = None
    /\ indices = << >>
    /\ cidx = 1
    /\ total = ZeroStats
    /\ w = [n \in Names |-> IdleWorker]
    /\ passes = 0
    /\ saves = 0
    /\ ckptBefore = None
    /\ initNow = None
    /\ born = {}
    /\ fatal = None

HashFirst ==
    /\ h.pc = "given"
    /\ h' = [h EXCEPT !.pc = "first", !.fa = HashFieldMap(h.a)]
    /\ UNCHANGED progVars

HashSecond ==
    /\ h.pc = "first"
    /\ h' = [h EXCEPT !.pc = "done", !.fb = HashFieldMap(h.b)]
    /\ UNCHANGED progVars

NextHash == HashFirst \/ HashSecond

SpecHash == InitHash /\ [][NextHash]_vars

(* ------------------------------ properties ---------------------------- *)
Ended(i) == w[i].pc = "done"

\* the collection has disappeared from a cluster that had it when the call began
Vanished(i) ==
    \/ w[i].srcAt /\ i \notin srcIdx
    \/ w[i].tgtAt /\ i \notin tgtIdx

\* the call ended because of a hard error
HardError(i) ==
    /\ Ended(i)
    /\ \/ w[i].exit = "error"
       \/ w[i].exit = "notfound" /\ Vanished(i)

RECURSIVE SumN(_, _)
\* documents handed to the bulk futures fs[1..k]
SumN(fs, k) == IF k = 0 THEN 0 ELSE fs[k].n + SumN(fs, k - 1)

\* C1: whenever a call of replicate_index that disabled the refresh interval
\* of its target collection has ended, on whatever exit path, the refresh
\* interval of that collection is back at the default.
C1_RefreshRestoredOnEveryExit ==
    \A i \in Names :
        (Ended(i) /\ w[i].disabled /\ i \in tgtIdx) => tgtRefresh[i] = "1s"

\* C2: when replicate_index has returned without raising for a collection
\* that is on the source and was not on the target when the call began, the
\* collection is on the target.
C2_SchemaEnsuredOnReturn ==
    \A i \in Names :
        (Ended(i) /\ w[i].res = "ret" /\ w[i].srcAt /\ i \in srcIdx /\ ~w[i].tgtAt)
            => i \in tgtIdx

\* C3: with continuous = false, replicate_all_indices runs one discovery and
\* no second one, whatever the discovery returns.
C3_OnePassWhenNotContinuous ==
    (mode = "all" /\ ~continuous) => passes <= 1

\* C4: every pass of replicate_all_indices, also one whose discovery is empty,
\* has called _save_sync_time before the next pass starts or the call returns.
C4_CheckpointWriteAfterEveryPass ==
    (mode = "all" /\ pc \in {"discover", "returned"}) => saves = passes

\* C5: after _init_last_sync_time, last_sync_time is set: it is the stored
\* checkpoint when that was read, and now minus 24 hours otherwise.
C5_LastSyncTimeSetAfterInit ==
    (pc \in {"discover", "missing_discover"} /\ passes = 0) =>
        /\ lastSync # None
        /\ \/ lastSync = DefaultSyncTime(initNow)
           \/ ckpt # None /\ lastSync = FromIsoFormat(ckpt)

\* C6: after a completed pass of replicate_all_indices the checkpoint document
\* holds a timestamp strictly later than the one stored when the pass started.
C6_CheckpointAdvancesEveryPass ==
    (mode = "all" /\ pc \in {"sleep_empty", "sleep", "returned"}) =>
        /\ ckpt # None
        /\ ckptBefore # None => Later(FromIsoFormat(ckpt), FromIsoFormat(ckptBefore))

\* C7: a collection that fails does not abort the pass: the pass summary and
\* the checkpoint write are reached only with every discovered collection run
\* to its end, replicate_missing_indices returns only after its whole list,
\* and the process never leaves with a fatal error from the handling of a
\* collection (only from startup or discovery).  (A pass that a process
\* interrupt ended has no summary and no checkpoint write.)
C7_FailureDoesNotAbortPass ==
    /\ (pc \in {"save", "sleep", "returned"} /\ intr.st # "handled") =>
           \A k \in 1..Len(indices) : Ended(indices[k])
    /\ (mode = "missing" /\ pc = "returned") => cidx > Len(indices)
    /\ pc = "exit1" => fatal \in {"connection", "discovery"}

\* C7 witness: a pass reached its checkpoint write although one collection
\* raised, and a sibling collection was replicated to its normal end.
C7_Witness ==
    /\ mode = "all"
    /\ pc = "returned"
    /\ saves = 1
    /\ \E i, j \in Names : w[i].res = "exc" /\ w[j].exit = "normal"
                           /\ w[j].stats.updated > 0

\* C8: a call that ended because of a hard error hands statistics with
\* failed >= 1 to the pass.
C8_HardErrorCountsAsFailed ==
    \A i \in Names :
        (mode = "all" /\ HardError(i)) => SingleIndexOutcome(w[i]).stats.failed >= 1

\* C9: document failures are counted and abort nothing: when no store call of
\* the collection raised, the scan has been read to its end, every document
\* that could be fingerprinted was handed to a bulk request, each bulk request
\* of n documents with k rejections gave n - k successes, failed is the number
\* of failed documents and updated the number of the others.
C9_DocumentFailuresAreCounted ==
    \A i \in Names :
        (Ended(i) /\ w[i].exit = "normal" /\ w[i].lost = 0) =>
            /\ w[i].pos = w[i].snap
            /\ SumN(w[i].futures, Len(w[i].futures)) = w[i].snap - w[i].hashFail
            /\ \A k \in 1..Len(w[i].futures) :
                   /\ w[i].futures[k].st = "ok"
                   /\ w[i].futures[k].succ + w[i].futures[k].fail = w[i].futures[k].n
            /\ w[i].stats.failed = w[i].hashFail + w[i].rejected
            /\ w[i].stats.updated = w[i].snap - (w[i].hashFail + w[i].rejected)

\* C9 witness: a call returned normally after two bulk requests, with a
\* document that could not be fingerprinted, a rejected one and a written one.
C9_Witness ==
    \E i \in Names :
        /\ Ended(i) /\ w[i].exit = "normal" /\ w[i].lost = 0
        /\ Len(w[i].futures) = 2
        /\ w[i].hashFail >= 1 /\ w[i].rejected >= 1 /\ w[i].stats.updated >= 1

\* C10: when replicate_index returns normally, updated + failed is the number
\* of documents the scan produced.
C10_EveryDocumentCountedOnce ==
    \A i \in Names :
        (Ended(i) /\ w[i].exit = "normal") =>
            w[i].stats.updated + w[i].stats.failed = w[i].snap

RECURSIVE SumOutcomes(_, _)
\* the statistics handed over by the collections indices[1..k], field f,
\* with one failure for a collection whose future raised
SumOutcomes(k, f) ==
    IF k = 0 THEN 0
    ELSE LET out == SingleIndexOutcome(w[indices[k]]) IN
         (IF out.raised THEN (IF f = "failed" THEN 1 ELSE 0) ELSE out.stats[f])
         + SumOutcomes(k - 1, f)

\* C11: while the results of a pass are collected and after the pass, each
\* global counter is the sum of that counter over the results collected so
\* far (all of them at the end of the pass), whatever the order in which the
\* collection workers ran and ended.  (A pass that a process interrupt ended
\* drops its counters.)
C11_GlobalCountersAreSums ==
    (mode = "all" /\ pc \in {"collect", "save", "sleep", "returned"} /\ intr.st # "handled") =>
        /\ pc # "collect" => cidx = Len(indices) + 1
        /\ \A f \in {"processed", "updated", "failed"} :
               total[f] = SumOutcomes(cidx - 1, f)

\* C11 witness: a pass over two collections has ended; each of them wrote a
\* document and one of them counted a failure.
C11_Witness ==
    /\ mode = "all" /\ pc = "returned" /\ Len(indices) = 2
    /\ \A k \in 1..2 : Ended(indices[k])
    /\ \E k \in 1..2 : w[indices[k]].stats.updated >= 1
    /\ \E k \in 1..2 : SingleIndexOutcome(w[indices[k]]).stats.failed >= 1
    /\ total.updated + total.failed >= 2

\* the name starts with the reserved prefix
StartsWithDot(n) == Chars(n)[1] = "."

\* C12: a discovery of replicate_all_indices that did not raise lists each
\* source collection whose name matches no exclusion pattern exactly once
\* and nothing else; a name that starts with "." is never listed.
C12_DiscoveryExcludesReservedNames ==
    [][(pc = "discover" /\ pc' \in {"collect", "sleep_empty"}) =>
         /\ \A n \in Names :
                InList(n, indices') <=> (n \in srcIdx /\ ~StartsWithDot(n))
         /\ \A j, k \in 1..Len(indices') : indices'[j] = indices'[k] => j = k]_vars

\* C12 witness: a discovery has listed two collections while a collection
\* with a reserved name was on the source.
C12_Witness ==
    /\ mode = "all" /\ pc = "collect" /\ cidx = 1
    /\ \E n \in srcIdx : StartsWithDot(n)
    /\ Len(indices) = 2

\* C13: a get_missing_indices that did not raise lists exactly the source
\* collections that pass the exclusion filter and are not on the target.
C13_MissingIsFilteredDifference ==
    [][(pc = "missing_discover" /\ pc' # "exit1") =>
         /\ \A n \in Names :
                InList(n, indices') <=>
                    (n \in srcIdx /\ ~StartsWithDot(n) /\ n \notin tgtIdx)
         /\ \A j, k \in 1..Len(indices') : indices'[j] = indices'[k] => j = k]_vars

\* C13 witness: get_missing_indices listed one collection while another
\* eligible source collection was already on the target.
C13_Witness ==
    /\ mode = "missing" /\ pc = "missing_loop" /\ cidx = 1
    /\ Len(indices) = 1
    /\ \E n \in srcIdx \cap tgtIdx : ~StartsWithDot(n)
    /\ \E n \in srcIdx : StartsWithDot(n)

AbsDiff(x, y) == IF x > y THEN x - y ELSE y - x

\* verify_replication has just left a collection (v.last tells how)
LeftCollection == v.pc \in {"get", "exit0", "exit1"} /\ v.last.path # "none"

\* ids of the source sample that the target sample lacks or holds with
\* another fingerprint, and those it holds with the same fingerprint
Differing(ss, ts) == {id \in DOMAIN ss : id \notin DOMAIN ts \/ ss[id] # ts[id]}
Matching(ss, ts) == {id \in DOMAIN ss : id \in DOMAIN ts /\ ss[id] = ts[id]}

\* C14: when a verification that began after replicate_all_indices had
\* returned has compared the samples of a collection that was replicated
\* without a failed document, it has found no content mismatch in it; and
\* after any such replication, the first or a later one, each target document
\* holds the source fields with the fingerprint of the source fields.
C14_CleanReplicationVerifiesClean ==
    \A i \in Names :
        (mode = "all" /\ Ended(i) /\ w[i].exit = "normal" /\ w[i].stats.failed = 0) =>
            /\ \A id \in 1..w[i].snap :
                   /\ id \in DOMAIN tgtDocs[i]
                   /\ tgtDocs[i][id] = ActionSource(SourceDoc(i, id))
            /\ (v.after /\ LeftCollection /\ v.last.name = i /\ v.last.path = "sampled") =>
                   (v.stats.mismatches - v.last.pre.mismatches)
                     - (v.stats.count_mismatches - v.last.pre.count_mismatches) = 0

\* C15: when verify_replication has compared the samples of a collection,
\* mismatches has grown, beyond the count difference, by the number of ids of
\* the source sample that the target sample lacks or holds with another
\* fingerprint; an id with equal fingerprints adds nothing.
C15_OneMismatchPerDifferingId ==
    (LeftCollection /\ v.last.path = "sampled") =>
        v.stats.mismatches =
            v.last.pre.mismatches + AbsDiff(v.last.sc, v.last.tc)
              + Cardinality(Differing(v.last.ss, v.last.ts))

\* C15 witness: the compared samples held an id with equal fingerprints and
\* an id that the target sample lacked although the target holds the document.
C15_Witness ==
    /\ LeftCollection /\ v.last.path = "sampled"
    /\ Matching(v.last.ss, v.last.ts) # {}
    /\ \E id \in DOMAIN v.last.ss :
          id \notin DOMAIN v.last.ts /\ id \in DOMAIN tgtDocs[v.last.name]

\* C16: when verify_replication has compared the samples of a collection,
\* checked has grown by the number of ids of the source sample that the
\* target sample holds with the same fingerprint.
C16_CheckedCountsMatchesOnly ==
    (LeftCollection /\ v.last.path = "sampled") =>
        v.stats.checked = v.last.pre.checked + Cardinality(Matching(v.last.ss, v.last.ts))

\* C17: once verify_replication has read the two counts of a collection,
\* count_mismatches has grown by their difference, and so has mismatches
\* before the sampling and when the sampling fails or is skipped; equal counts
\* change neither.
C17_CountDifferenceInBothCounters ==
    /\ v.pc = "sample" =>
          /\ v.stats.count_mismatches = v.pre.count_mismatches + AbsDiff(v.sc, v.tc)
          /\ v.stats.mismatches = v.pre.mismatches + AbsDiff(v.sc, v.tc)
    /\ (LeftCollection /\ v.last.path \in {"empty", "samplefail", "sampled"}) =>
          /\ v.stats.count_mismatches =
                 v.last.pre.count_mismatches + AbsDiff(v.last.sc, v.last.tc)
          /\ v.last.path # "sampled" =>
                 v.stats.mismatches = v.last.pre.mismatches + AbsDiff(v.last.sc, v.last.tc)
          /\ v.stats.mismatches >= v.last.pre.mismatches + AbsDiff(v.last.sc, v.last.tc)

\* C17 witness: the sampling of a collection failed after its counts had
\* been found to differ, the target holding more documents than the source.
C17_Witness ==
    /\ LeftCollection /\ v.last.path = "samplefail"
    /\ v.last.tc > v.last.sc
    /\ v.stats.count_mismatches = v.last.tc - v.last.sc

\* C18: when the existence check of verify_replication is answered for a
\* collection that is absent on the source or on the target, the collection
\* adds one to missing_indices and one to mismatches and nothing else, and
\* the loop goes on to the next collection without counting or sampling.
C18_AbsentCollectionIsMissing ==
    [][(/\ v.pc = "get"
        /\ v' # v
        /\ v.list[v.idx] \notin srcIdx \/ v.list[v.idx] \notin tgtIdx
        /\ v'.last.path # "error") =>
            /\ v'.last.path = "missing"
            /\ v'.idx = v.idx + 1
            /\ v'.pc \in {"get", "exit0", "exit1"}
            /\ v'.stats = [checked |-> v.stats.checked,
                           mismatches |-> v.stats.mismatches + 1,
                           missing_indices |-> v.stats.missing_indices + 1,
                           count_mismatches |-> v.stats.count_mismatches]]_vars

\* C18 witness: verify_replication has recorded as missing a collection
\* that is on the target and no longer on the source.
C18_Witness ==
    /\ LeftCollection /\ v.last.path = "missing"
    /\ v.last.name \in tgtIdx /\ v.last.name \notin srcIdx

\* C19: no step of the verifying process changes a collection, a document, a
\* setting or the checkpoint of either cluster, also while a replication
\* pass is running.
C19_VerificationIsReadOnly ==
    [][v' # v => UNCHANGED clusterVars]_vars

\* C19 witness: a verification has compared the samples of a collection
\* while the replication of that collection was under way.
C19_Witness ==
    /\ LeftCollection /\ v.last.path = "sampled"
    /\ w[v.last.name].pc \notin {"idle", "queued", "done"}

\* C20: the collections, documents and settings of the source change by the
\* deletions and creations of other clients only: no step of the replicator
\* writes them.
C20_SourceIsNeverWritten ==
    [][srcVars' # srcVars =>
         /\ envLeft' = envLeft - 1
         /\ \/ \E i \in srcIdx : srcIdx' = srcIdx \ {i}
            \/ \E i \in Names \ srcIdx : srcIdx' = srcIdx \cup {i}
         /\ \A n \in srcIdx \cap srcIdx' : srcCount'[n] = srcCount[n]
         /\ srcSum' = srcSum
         /\ srcRefresh' = srcRefresh]_vars

\* C20 witness: a pass has ended with its checkpoint written after a
\* collection was created on the target, filled and had its settings changed.
C20_Witness ==
    /\ mode = "all" /\ pc = "returned" /\ saves >= 1
    /\ \E i \in Names :
          /\ Ended(i) /\ w[i].exit = "normal"
          /\ w[i].created /\ w[i].disabled /\ w[i].stats.updated >= 1
          /\ i \in srcIdx

\* C21: every document that a step of replication writes to the target holds
\* the fields of the source document and, in the checksum field, the
\* fingerprint of the fields as the source holds them: not the fingerprint
\* of the fields with the new checksum attached, and never nothing.
C21_WrittenDocumentsCarryFingerprint ==
    [][\A i \in Names : \A id \in DOMAIN tgtDocs'[i] :
          (id \notin DOMAIN tgtDocs[i] \/ tgtDocs'[i][id] # tgtDocs[i][id]) =>
              /\ tgtDocs'[i][id].body = SourceDoc(i, id).body
              /\ tgtDocs'[i][id].sum = GenerateDocHash(SourceDoc(i, id))
              /\ tgtDocs'[i][id].sum # NoSum
              /\ tgtDocs'[i][id].sum #
                     GenerateDocHash([body |-> SourceDoc(i, id).body,
                                      sum  |-> tgtDocs'[i][id].sum])]_vars

\* C21 witness: a collection whose source documents already carry a checksum
\* field has been replicated, and its target document holds the fingerprint
\* of the source fields, the old checksum among them.
C21_Witness ==
    \E i \in Names :
        /\ mode = "all" /\ Ended(i) /\ w[i].exit = "normal" /\ w[i].stats.updated >= 1
        /\ srcSum[i] # NoSum
        /\ \E id \in DOMAIN tgtDocs[i] :
              tgtDocs[i][id] = [body |-> id, sum |-> GenerateDocHash(SourceDoc(i, id))]

\* C22: two field maps that hold the same keys with equal values, nested
\* maps included, have equal fingerprints whatever their insertion orders,
\* and a map has the same fingerprint each time.
C22_HashIgnoresInsertionOrder ==
    h.pc = "done" =>
        /\ h.fa = HashFieldMap(h.a)
        /\ AsValue(h.a) = AsValue(h.b) => h.fa = h.fb

\* C23: in verify-only mode the process exits 1 exactly when the report
\* holds a mismatch or a fatal error occurred, and exits 0 otherwise, and a
\* collection whose verification raised is never left uncounted at exit 0.
C23_VerifyExitCode ==
    mode = "verify" =>
        /\ v.pc = "exit1" => (v.stats.mismatches > 0 \/ v.list = << >>)
        /\ v.pc \in {"exit0", "returned"} => (v.stats.mismatches = 0 /\ v.errs = 0)

\* nothing of replication has happened: no checkpoint read or write, no
\* discovery, no collection begun, no settings change, no creation, no upsert
NoReplicationWork ==
    /\ initNow = None /\ lastSync = None
    /\ saves = 0 /\ passes = 0
    /\ indices = << >> /\ total = ZeroStats
    /\ \A n \in Names : w[n] = IdleWorker
    /\ \A n \in Names : tgtRefresh[n] = "1s" /\ srcRefresh[n] = "1s"
    /\ \A n \in Names : tgtDocs[n] = << >>

\* C24: a failed connectivity check ends the process with exit code 1, and
\* until the checks have succeeded nothing of replication has happened.
C24_ConnectionFailureBeforeAnyWork ==
    mode # "verify" =>
        /\ fatal = "connection" => pc = "exit1"
        /\ (pc = "start" \/ fatal = "connection") => NoReplicationWork

C24_Witness ==
    /\ mode = "all" /\ fatal = "connection" /\ pc = "exit1"
    /\ "a" \in srcIdx /\ srcCount["a"] >= 1 /\ "a" \notin tgtIdx

\* t is the complete text of a timestamp: isoformat() of the datetime it parses to
CompleteTimestamp(t) == t # None /\ IsoFormat(FromIsoFormat(t)) = t /\ FromIsoFormat(t).s > 0

\* C25: once an interrupt has come during replicate_all_indices no pass
\* begins; the operation returns only when every submitted collection has
\* ended and no bulk request is in flight; and the checkpoint is the one of
\* before the interrupted pass or a complete new timestamp.
C25_InterruptStopsBetweenPasses ==
    /\ [](intr.st = "raised" => pc = "executor_exit" /\ ckpt = ckptBefore)
    /\ [](intr.st = "handled" =>
            /\ pc = "returned"
            /\ \A n \in Names : w[n].pc \in {"idle", "done"} /\ Unfinished(n) = {}
            /\ ckpt = ckptBefore \/ (CompleteTimestamp(ckpt) /\ FromIsoFormat(ckpt) = now))
    /\ [][intr.st \in {"raised", "handled"} => passes' = passes]_vars

C25_Witness ==
    /\ intr.st = "handled" /\ pc = "returned"
    /\ intr.busy # {} /\ intr.flying > 0
    /\ \E n \in intr.busy : w[n].pc = "done" /\ w[n].stats.updated >= 1
    /\ ckpt = ckptBefore

C25_WitnessInSave ==
    intr.st = "handled" /\ pc = "returned" /\ saves = 1 /\ CompleteTimestamp(ckpt) /\ ckpt # ckptBefore

\* C26: at most max_index_workers collections are replicated at a time, at
\* most max_workers bulk requests of one collection are in flight, and at
\* most max_index_workers x max_workers bulk requests in the process.
C26_PoolsBoundConcurrency ==
    /\ Cardinality(Running) <= MaxIndexWorkers
    /\ \A n \in Names : Cardinality(InFlight(n)) <= MaxWorkers
    /\ \A n \in Names : InFlight(n) # {} => (n \in Running \/ mode = "missing")
    /\ Cardinality(UNION {{<<n, k>> : k \in InFlight(n)} : n \in Names})
           <= MaxIndexWorkers * MaxWorkers

C26_Witness ==
    \E n \in Running :
        /\ Cardinality(InFlight(n)) = MaxWorkers
        /\ \E k \in 1..Len(w[n].futures) : w[n].futures[k].st = "run"

C26_WitnessCollections ==
    /\ Cardinality(Running) = MaxIndexWorkers
    /\ \E n \in Names : w[n].pc = "queued"

CreateFailed(i) == w[i].pc = "done" /\ w[i].at = "create" /\ w[i].res = "exc"

\* C28: a failed creation of the target collection is raised out of
\* replicate_index after one attempt, with nothing scanned and no bulk
\* request submitted for the collection, and it does not end the pass.
C28_CreateFailureIsFinalForTheCollection ==
    \A i \in Names :
        CreateFailed(i) =>
            /\ w[i].creates = 1 /\ ~w[i].created
            /\ w[i].snap = 0 /\ w[i].pos = 0 /\ w[i].futures = << >>
            /\ w[i].stats = ZeroStats
            /\ fatal # "collection"
            /\ mode = "all" =>
                  SingleIndexOutcome(w[i]) =
                      [raised |-> FALSE, stats |-> [processed |-> 0, updated |-> 0, failed |-> 1]]

C28_Witness ==
    /\ mode = "all" /\ pc = "returned" /\ passes = 1 /\ saves = 1
    /\ CreateFailed("a") /\ w["a"].tgtAt /\ srcCount["a"] >= 1
    /\ total = [processed |-> 0, updated |-> 0, failed |-> 1]


\* C29: in each call of replicate_index the target collection exists before
\* the first bulk request is dispatched, every bulk request is dispatched
\* while refresh_interval of the target is "-1", and the statistics are
\* returned only when the result of every dispatched bulk request has been
\* collected and none is in flight.
C29_EventsOfACollectionInOrder ==
    [][\A i \in Names :
          /\ Len(w'[i].futures) > Len(w[i].futures) =>
                (i \in tgtIdx /\ tgtRefresh[i] = "-1")
          /\ (w'[i].pc = "done" /\ w'[i].res = "ret") =>
                /\ w'[i].fidx > Len(w'[i].futures)
                /\ \A k \in 1..Len(w'[i].futures) : w'[i].futures[k].st \in {"ok", "exc"}]_vars


\* C30: when two bulk requests of a pass write the same document id
\* together, then once both have ended the target document is the source
\* fields and their fingerprint, in whatever order their writes came.
C30_ConcurrentUpsertsConverge ==
    \A a, b \in wire :
        (a # b /\ a.left = {} /\ b.left = {}) =>
            \A id \in DOMAIN tgtDocs["a"] :
                (\E k \in 1..Len(w["a"].futures) :
                    /\ k \in {a.fut, b.fut}
                    /\ id \in w["a"].futures[k].lo .. (w["a"].futures[k].lo + w["a"].futures[k].n - 1)) =>
                    tgtDocs["a"][id] =
                        [body |-> SourceDoc("a", id).body,
                         sum |-> GenerateDocHash(SourceDoc("a", id))]

C30_Witness ==
    /\ \A a \in wire : a.left = {}
    /\ \E a, b \in wire : a # b /\ a.fut = b.fut
    /\ Len(w["a"].futures) = 2
    /\ \A k \in 1..Len(w["a"].futures) : w["a"].futures[k].st = "ok"
    /\ \A id \in 1..srcCount["a"] :
          id \in DOMAIN tgtDocs["a"] /\ tgtDocs["a"][id].sum = GenerateDocHash(SourceDoc("a", id))

\* C31: the checkpoint is written by the coordinator only, once every
\* collection worker of the pass has ended and no bulk request is under
\* way, and at most once in a pass.
C31_CheckpointHasOneWriter ==
    [][/\ (ckpt' # ckpt \/ metaExists' # metaExists \/ saves' # saves) =>
             /\ pc = "save" /\ pc' # "save"
             /\ saves' = saves + 1
             /\ \A n \in Names : w[n].pc \in {"idle", "done"} /\ Unfinished(n) = {}
             /\ w' = w
       /\ saves' <= passes']_vars

C31_Witness ==
    /\ mode = "all" /\ continuous /\ passes = 2 /\ saves = 2
    /\ ckpt # None /\ ckpt # ckptBefore /\ ckptBefore # None
    /\ w["a"].pc = "done" /\ w["a"].stats.updated >= 1

\* C32: the timestamp field a collection worker reports is the one detected
\* from the schema of its own collection (none when there is none), whatever
\* the other workers of the pass do.
C32_ReportedFieldIsOwn ==
    \A n \in Names : w[n].pc = "put_off" => w[n].logged = w[n].detected

\* the collections a pass replicates are those of the one discovery at its
\* start: the list does not change while the pass runs, no call is started
\* for a collection that is not in it (so none for a collection created on
\* the source during the pass), and every discovery submits every eligible
\* collection that is on the source at that moment, whatever the earlier
\* passes listed
PassSetFixed ==
    mode = "all" =>
        /\ pc # "discover" => indices' = indices
        /\ \A n \in Names : w'[n].pc # "idle" => InList(n, indices')
        /\ (pc = "discover" /\ pc' = "collect") =>
               \A n \in srcIdx : ShouldReplicate(n) => w'[n].pc = "queued"

\* a call that returns without raising for a collection that another client
\* created during an earlier pass leaves the collection on the target
CreatedIsReplicatedNext ==
    \A n \in born :
        (w[n].pc # "done" /\ w'[n].pc = "done" /\ w'[n].res = "ret" /\ n \in srcIdx')
            => n \in tgtIdx'

\* C33: the collections replicated in a pass are fixed by the one discovery
\* at its start; a collection created on the source while a pass runs is not
\* replicated in that pass and is replicated in the next one.
C33_CreatedMidPassReplicatedNextPass ==
    [][PassSetFixed /\ CreatedIsReplicatedNext]_vars

\* the part of C33 about discovery alone
C33_PassSetFixedByDiscovery == [][PassSetFixed]_vars

\* the second pass has run the call for a collection that another client
\* created on the source while the first pass was running
C33_CreatedThenListed ==
    /\ mode = "all" /\ continuous /\ passes = 2 /\ ckptBefore # None
    /\ born = {"b"} /\ indices = <<"a", "b">>
    /\ w["a"].pc = "done" /\ w["b"].pc = "done"

\* the call for collection n is under way or has ended, before and after a step
InCall(n) == w[n].pc \notin {"idle", "queued"} /\ w'[n].pc \notin {"idle", "queued"}

\* C34: in the statistics record of every call of replicate_index, while the
\* call runs and after it, processed equals updated, no counter is negative,
\* and no counter decreases.
C34_ProcessedEqualsUpdated ==
    /\ [](\A n \in Names :
             /\ w[n].stats.processed = w[n].stats.updated
             /\ w[n].stats.processed >= 0 /\ w[n].stats.failed >= 0)
    /\ [][\A n \in Names :
             InCall(n) =>
                 /\ w'[n].stats.processed >= w[n].stats.processed
                 /\ w'[n].stats.updated >= w[n].stats.updated
                 /\ w'[n].stats.failed >= w[n].stats.failed]_vars

\* C34 witness: a call has collected the results of two bulk requests, one
\* with a rejected document, and has ended with documents written and
\* documents failed.
C34_Witness ==
    \E n \in Names :
        /\ w[n].pc = "done" /\ w[n].exit = "normal"
        /\ Len(w[n].futures) = 2 /\ w[n].fidx = 3
        /\ w[n].rejected >= 1
        /\ w[n].stats.updated >= 1 /\ w[n].stats.failed >= 1

\* C35: the report of verify_replication always has mismatches >=
\* count_mismatches + missing_indices; a step that leaves a collection on an
\* exception keeps every counter as it was and goes on with the next
\* collection of the list, and the loop ends only after the last one.
C35_ReportSurvivesExceptions ==
    /\ [](/\ v.stats.mismatches >= v.stats.count_mismatches + v.stats.missing_indices
          /\ v.pc \in {"exit0", "exit1", "returned"} => v.idx = Len(v.list) + 1)
    /\ [][v'.errs = v.errs + 1 =>
             /\ v'.stats = v.stats
             /\ v'.idx = v.idx + 1
             /\ v.idx < Len(v.list) => v'.pc = "get"]_vars

\* C35 witness: the loop left the first collection of two on an exception
\* after it had counted a difference of the two counts, and has then compared
\* the samples of the second; the report holds both.
C35_Witness ==
    /\ mode = "verify" /\ v.pc \in {"exit0", "exit1"}
    /\ Len(v.list) = 2 /\ v.errs = 1
    /\ v.last.name = v.list[2] /\ v.last.path = "sampled"
    /\ v.last.pre.count_mismatches >= 1
    /\ v.stats.checked >= 1

=============================================================================
